---- MODULE Spec2Model ----
(***************************************************************************)
(* Model of src/prepdb.py: the credential rotation driver.  One run lists  *)
(* the database instances, filters them, reads the admin secret, checks    *)
(* the login, creates or alters the role service.<service> and stores the  *)
(* new password in the Secret Store.                                       *)
(*                                                                         *)
(* Python strings are sequences of one-character strings, so that split,   *)
(* lower, startswith and the f-strings are computed as the code computes   *)
(* them.  A Python dict is a sequence of <<key, value>> pairs with         *)
(* distinct keys, in insertion order.                                      *)
(***************************************************************************)
EXTENDS Integers, Sequences, FiniteSets, TLC

(***************************************************************************)
(* Bounds of the model.                                                    *)
(***************************************************************************)
MaxInstances == 2
MaxRuns == 2

(***************************************************************************)
(* String helpers.                                                         *)
(***************************************************************************)
UpperLetters == <<"A","B","C","D","E","F","G","H","I","J","K","L","M",
                  "N","O","P","Q","R","S","T","U","V","W","X","Y","Z">>
LowerLetters == <<"a","b","c","d","e","f","g","h","i","j","k","l","m",
                  "n","o","p","q","r","s","t","u","v","w","x","y","z">>

\* str.lower() on one character
LowerChar(c) ==
  IF \E i \in DOMAIN UpperLetters : UpperLetters[i] = c
    THEN LowerLetters[CHOOSE i \in DOMAIN UpperLetters : UpperLetters[i] = c]
    ELSE c

\* str.lower()
Lower(s) == [i \in DOMAIN s |-> LowerChar(s[i])]

\* str.startswith(p)
StartsWith(s, p) == Len(s) >= Len(p) /\ SubSeq(s, 1, Len(p)) = p

\* str.split(sep) for a one-character separator: the list of the pieces
\* between the separators (an empty piece between two adjacent separators)
RECURSIVE SplitFrom(_, _, _, _)
SplitFrom(s, sep, i, piece) ==
  IF i > Len(s) THEN <<piece>>
  ELSE IF s[i] = sep THEN <<piece>> \o SplitFrom(s, sep, i + 1, <<>>)
  ELSE SplitFrom(s, sep, i + 1, Append(piece, s[i]))

Split(s, sep) == SplitFrom(s, sep, 1, <<>>)

\* the literals of the f-strings
CORE == <<"c","o","r","e">>
SERVICE_SUFFIX == <<"-","s","e","r","v","i","c","e">>
ADMIN_SECRET_SUFFIX ==
  <<"-","d","b","-","a","d","m","i","n","-","P","a","s","s","w","o","r","d">>
ROLE_PREFIX == <<"s","e","r","v","i","c","e",".">>
DB_ADMIN_USER == "admin"
DB_PASSWORD == "DB_PASSWORD"

\* a variant of SecretNameSuffix that compares without lower()
SecretNameSuffix_CaseSensitive(service) ==
  IF StartsWith(service, CORE) THEN <<>> ELSE SERVICE_SUFFIX

\* "" if service_name.lower().startswith("core") else "-service"
SecretNameSuffix(service) ==
  IF StartsWith(Lower(service), CORE) THEN <<>> ELSE SERVICE_SUFFIX

\* f"{env_name}/{service_name}{secret_name_suffix}"
SecretName(env, service) == env \o <<"/">> \o service \o SecretNameSuffix(service)

\* f"{env_name}-{service_name}-db-admin-Password"
AdminSecretName(env, service) == env \o <<"-">> \o service \o ADMIN_SECRET_SUFFIX

\* f"service.{service_name}"
NewUser(service) == ROLE_PREFIX \o service

(***************************************************************************)
(* Python dict and json.                                                   *)
(***************************************************************************)
DictKeys(d) == {d[i][1] : i \in DOMAIN d}

\* d[k] = v : replaces the value in place, or appends the new key
DictSet(d, k, v) ==
  IF k \in DictKeys(d)
    THEN [i \in DOMAIN d |-> IF d[i][1] = k THEN <<k, v>> ELSE d[i]]
    ELSE Append(d, <<k, v>>)

\* A SecretString is [kind, pairs]: the text of a JSON object with the
\* members pairs (a key may be repeated in the text), or text that is not a
\* JSON object.
IsJsonObject(s) == s.kind = "object"

RECURSIVE LoadPairs(_, _)
LoadPairs(pairs, d) ==
  IF pairs = <<>> THEN d
  ELSE LoadPairs(Tail(pairs), DictSet(d, Head(pairs)[1], Head(pairs)[2]))

\* json.loads of the text of an object: the last value of a repeated key wins
json_loads(s) == LoadPairs(s.pairs, <<>>)

\* json.dumps of a dict
json_dumps(d) == [kind |-> "object", pairs |-> d]

(***************************************************************************)
(* Collaborators.  A Secret Store call ends in one of three ways besides   *)
(* success: ClientError with code ResourceNotFoundException (decided by    *)
(* the store's content), ClientError with another code ("ClientError":     *)
(* access denied, throttling), or an SDK exception that is not a           *)
(* ClientError ("BotoCoreError": the endpoint cannot be reached).  A       *)
(* database call either succeeds or raises psycopg2.Error.                 *)
(***************************************************************************)
StoreFaults == {"none", "ClientError", "BotoCoreError"}
NOT_FOUND == "ResourceNotFoundException"
None == "None"
ADMIN_PASSWORD == "s3cr3t"
Absent == "<absent>"
EmptyFcn == [x \in {} |-> x]

\* one collaborator call: the operation, how it ended ("ok" or the error),
\* and its arguments
Call(op, code, arg) == [op |-> op, code |-> code, arg |-> arg]
PG_ERROR == "psycopg2.Error"

\* secrets_manager_client.get_secret_value(SecretId=name): the outcome code
GetSecretCode(store, name, fault) ==
  IF fault # "none" THEN fault
  ELSE IF name \in DOMAIN store THEN "ok" ELSE NOT_FOUND

\* secrets_manager_client.update_secret: [code, store]
update_secret(store, name, secret_string, fault) ==
  IF fault # "none" THEN [code |-> fault, store |-> store]
  ELSE IF name \in DOMAIN store
    THEN [code |-> "ok", store |-> [store EXCEPT ![name] = secret_string]]
    ELSE [code |-> NOT_FOUND, store |-> store]

\* secrets_manager_client.create_secret: [code, store]
create_secret(store, name, secret_string, fault) ==
  IF fault # "none" THEN [code |-> fault, store |-> store]
  ELSE IF name \in DOMAIN store
    THEN [code |-> "ClientError", store |-> store]
    ELSE [code |-> "ok", store |-> (name :> secret_string) @@ store]

(***************************************************************************)
(* generate_random_password: twelve characters drawn at random; the model  *)
(* draws the whole password from a small set.  The passwords a role or a   *)
(* secret can hold before the first run are OLD_PASSWORD.                   *)
(***************************************************************************)
generate_random_password == {"pwA", "pwB"}
OLD_PASSWORD == "pw0"

(***************************************************************************)
(* get_admin_password(secret_name): [ret, raised, calls]                   *)
(***************************************************************************)
get_admin_password(admin_secret_name, fault) ==
  LET call == Call("get_secret_value", IF fault = "none" THEN "ok" ELSE fault,
                   <<admin_secret_name>>) IN
  IF fault = "BotoCoreError"
    THEN [ret |-> None, raised |-> TRUE, calls |-> <<call>>]
  ELSE IF fault = "ClientError"
    THEN [ret |-> None, raised |-> FALSE, calls |-> <<call>>]
  ELSE [ret |-> ADMIN_PASSWORD, raised |-> FALSE, calls |-> <<call>>]

(***************************************************************************)
(* user_exists(cur, username): SELECT 1 FROM pg_roles WHERE rolname = ...  *)
(***************************************************************************)
user_exists(database, username) == username \in DOMAIN database.roles

(***************************************************************************)
(* check_rds_login: [ret, calls].  The connection it opens is closed       *)
(* before it returns.                                                      *)
(***************************************************************************)
check_rds_login(connectFails) ==
  IF connectFails
    THEN [ret |-> FALSE, calls |-> <<Call("connect", PG_ERROR, <<DB_ADMIN_USER>>)>>]
    ELSE [ret |-> TRUE,
          calls |-> <<Call("connect", "ok", <<DB_ADMIN_USER>>), Call("close", "ok", <<>>)>>]

(***************************************************************************)
(* create_or_update_user: [ret, database, calls, leaked].  database is the *)
(* instance's database, [roles, grants]: the password of each role and the *)
(* set of <<db_name, role>> grants (autocommit: each statement that        *)
(* succeeds is visible at once).  fail names the first call that raises    *)
(* psycopg2.Error: "connect", "select", "mutate" (the ALTER USER or the    *)
(* CREATE USER), "grant", or "none".  leaked: a connection was opened and the function     *)
(* returned without reaching conn.close().                                 *)
(***************************************************************************)
SqlFaults == {"none", "connect", "select", "mutate", "grant"}

\* a variant of CreatedOrUpdatedFlag that sets the flag only at the end, after
\* the GRANT
CreatedOrUpdatedFlag_OnlyOnSuccess(fail) == fail = "none"

\* a variant of CreatedOrUpdatedFlag that sets the flag before the ALTER USER
\* or CREATE USER is executed
CreatedOrUpdatedFlag_SetEarly(fail) == fail \in {"none", "grant", "mutate"}

\* the value of user_created_or_updated when psycopg2.Error is caught at
\* the statement fail, or at the return when fail = "none"
CreatedOrUpdatedFlag(fail) == fail \in {"none", "grant"}

\* a variant of RoleBranch that alters an existing role without -force
RoleBranch_IgnoresForce(exists, force) ==
  IF exists THEN "alter" ELSE "create"

\* the branch taken after user_exists: "skip", "alter" or "create"
RoleBranch(exists, force) ==
  IF exists THEN (IF force THEN "alter" ELSE "skip") ELSE "create"

create_or_update_user(database, db_name, new_user, new_pw, force, fail) ==
  LET connect == Call("connect", IF fail = "connect" THEN PG_ERROR ELSE "ok",
                    <<DB_ADMIN_USER>>)
      select == Call("SELECT", IF fail = "select" THEN PG_ERROR ELSE "ok", <<new_user>>)
      branch == RoleBranch(user_exists(database, new_user), force)
      stmt == Call(IF branch = "alter" THEN "ALTER USER" ELSE "CREATE USER",
                   IF fail = "mutate" THEN PG_ERROR ELSE "ok", <<new_user, new_pw>>)
      grant == Call("GRANT", IF fail = "grant" THEN PG_ERROR ELSE "ok",
                    <<db_name, new_user>>)
      withRole == [database EXCEPT !.roles = (new_user :> new_pw) @@ @]
      withGrant == [withRole EXCEPT !.grants = @ \cup {<<db_name, new_user>>}]
  IN
  IF fail = "connect"
    THEN [ret |-> FALSE, database |-> database, calls |-> <<connect>>,
          leaked |-> FALSE]
  ELSE IF fail = "select"
    THEN [ret |-> FALSE, database |-> database, calls |-> <<connect, select>>,
          leaked |-> TRUE]
  ELSE IF branch = "skip"
    THEN [ret |-> FALSE, database |-> database, calls |-> <<connect, select>>,
          leaked |-> TRUE]
  ELSE IF fail = "mutate"
    THEN [ret |-> CreatedOrUpdatedFlag(fail), database |-> database,
          calls |-> <<connect, select, stmt>>, leaked |-> TRUE]
  ELSE IF fail = "grant"
    THEN [ret |-> CreatedOrUpdatedFlag(fail), database |-> withRole,
          calls |-> <<connect, select, stmt, grant>>, leaked |-> TRUE]
  ELSE [ret |-> CreatedOrUpdatedFlag(fail), database |-> withGrant,
        calls |-> <<connect, select, stmt, grant, Call("close", "ok", <<>>)>>,
        leaked |-> FALSE]

(***************************************************************************)
(* store_password_in_secrets_manager: [store, raised, calls].  g, u and c  *)
(* are the faults of get_secret_value, update_secret and create_secret.    *)
(* raised: an exception other than ClientError left the function           *)
(* (json.loads on text that is no JSON object, or an SDK exception).       *)
(***************************************************************************)
\* a variant of ReadErrorEndsStep that takes every ClientError of the read
\* for "not found"
ReadErrorEndsStep_Never(getCode) == FALSE

\* except ClientError on the read: the code is not ResourceNotFoundException,
\* the error is logged and the function returns
ReadErrorEndsStep(getCode) == getCode = "ClientError"

\* a variant of MergedSecret that writes a mapping of its own
MergedSecret_Overwrite(secret_dict, key, password) == <<<<key, password>>>>

\* secret_dict[key] = password on the loaded mapping
MergedSecret(secret_dict, key, password) == DictSet(secret_dict, key, password)

store_password_in_secrets_manager(store, secret_name, key, password, g, u, c) ==
  LET getCode == GetSecretCode(store, secret_name, g)
      get == Call("get_secret_value", getCode, <<secret_name>>)
      secret_dict == IF getCode = "ok" THEN json_loads(store[secret_name]) ELSE <<>>
      secret_string == json_dumps(MergedSecret(secret_dict, key, password))
      upd == update_secret(store, secret_name, secret_string, u)
      update == Call("update_secret", upd.code, <<secret_name, secret_string>>)
      cre == create_secret(store, secret_name, secret_string, c)
      create == Call("create_secret", cre.code, <<secret_name, secret_string>>)
  IN
  IF getCode = "BotoCoreError"
    THEN [store |-> store, raised |-> TRUE, calls |-> <<get>>]
  ELSE IF ReadErrorEndsStep(getCode)
    THEN [store |-> store, raised |-> FALSE, calls |-> <<get>>]
  ELSE IF getCode = "ok" /\ ~IsJsonObject(store[secret_name])
    THEN [store |-> store, raised |-> TRUE, calls |-> <<get>>]
  ELSE IF upd.code = "ok"
    THEN [store |-> upd.store, raised |-> FALSE, calls |-> <<get, update>>]
  ELSE IF upd.code = "BotoCoreError"
    THEN [store |-> store, raised |-> TRUE, calls |-> <<get, update>>]
  ELSE IF upd.code = "ClientError"
    THEN [store |-> store, raised |-> FALSE, calls |-> <<get, update>>]
  ELSE [store |-> cre.store, raised |-> cre.code = "BotoCoreError",
        calls |-> <<get, update, create>>]

(***************************************************************************)
(* The instances the Instance Directory can list.  A key the descriptor    *)
(* does not hold is Absent.  The Endpoint (address and port) decides       *)
(* nothing in the driver and is left out.                                  *)
(***************************************************************************)
Instance(id, engine, dbname, replica) ==
  [DBInstanceIdentifier |-> id, Engine |-> engine, DBName |-> dbname,
   ReadReplicaSourceDBInstanceIdentifier |-> replica]

PROD_BILLING_1 == <<"p","-","b","i","l","l","-","1">>
PROD_CORE_2 == <<"p","-","C","o","r","e","-","2">>
PROD_BILLING_2 == <<"p","-","b","i","l","l","-","2">>
PROD_BILLING_3 == <<"p","-","b","i","l","l","-","3">>
PROD_BILLING_4 == <<"p","-","b","i","l","l","-","4">>
NO_DASH == <<"p","b","i","l","l">>

\* the account's instances, in the order the Instance Directory lists them
Directory ==
  << Instance(PROD_BILLING_1, "postgres", "appdb", Absent),
     Instance(PROD_BILLING_2, "postgres", "appdb", "p-bill-1"),
     Instance(NO_DASH, "postgres", "appdb", Absent),
     Instance(PROD_CORE_2, "aurora-postgresql", "appdb", ""),
     Instance(PROD_BILLING_3, "mysql", "appdb", Absent),
     Instance(PROD_BILLING_4, "postgres", Absent, Absent) >>

\* a listing: between one and MaxInstances of them, in that order
InstanceLists ==
  { [i \in DOMAIN pick |-> Directory[pick[i]]] :
      pick \in { f \in UNION {[1..n -> DOMAIN Directory] : n \in 1..MaxInstances} :
                   \A i, j \in DOMAIN f : i < j => f[i] < f[j] } }

\* what the Secret Store holds for a service before the first run
InitialSecrets ==
  { [kind |-> "absent", pairs |-> <<>>],
    [kind |-> "object",
     pairs |-> <<<<"URL", "u1">>, <<DB_PASSWORD, OLD_PASSWORD>>, <<"URL", "u2">>>>],
    [kind |-> "object", pairs |-> <<>>],
    [kind |-> "text", pairs |-> <<>>] }

\* a variant of IsReadReplica that finds no read replica
IsReadReplica_Never(instance) == FALSE

\* the main loop's tests on a descriptor
IsReadReplica(instance) ==
  /\ instance.ReadReplicaSourceDBInstanceIdentifier # Absent
  /\ instance.ReadReplicaSourceDBInstanceIdentifier # ""

\* a variant of EngineSupported without the allow-list
EngineSupported_AnyEngine(db_engine) == TRUE

EngineSupported(db_engine) == db_engine \in {"postgres", "aurora-postgresql"}

\* a variant of Truthy that lets None through
Truthy_Always(value) == TRUE

\* if admin_password:
Truthy(value) == value # None /\ value # ""

WellFormed(id) == Len(Split(id, "-")) >= 2

ServiceOf(id) == Split(id, "-")[2]
EnvOf(id) == Split(id, "-")[1]

VARIABLES
  args,                     \* [check, force]: the flags of this run
  instances,                \* rds_instances["DBInstances"]
  idx,                      \* position of the for loop in instances (0: not started)
  pc,                       \* where the run is
  env_name, service_name, secret_name, admin_secret_name,
  admin_password, new_password, user_created_or_updated,
  databases,                \* databases[i]: the database of instances[i]
  secretStore,              \* secret name -> SecretString
  openConns,                \* positions whose connection was never closed
  calls,                    \* collaborator calls made for instances[idx]
  before,                   \* history: the database of instances[idx] and the
                            \* Secret Store as they were when its turn began
  runs                      \* runs started so far

vars == <<args, instances, idx, pc, env_name, service_name, secret_name,
          admin_secret_name, admin_password, new_password,
          user_created_or_updated, databases, secretStore, openConns, calls,
          before, runs>>

locals == <<env_name, service_name, secret_name, admin_secret_name,
            admin_password, new_password, user_created_or_updated>>

Flags == [check : BOOLEAN, force : BOOLEAN]

NothingBefore == [database |-> [roles |-> EmptyFcn, grants |-> {}],
                  secrets |-> EmptyFcn]

InitialDatabase(instance, roleExists) ==
  IF roleExists /\ WellFormed(instance.DBInstanceIdentifier)
    THEN [roles |-> NewUser(ServiceOf(instance.DBInstanceIdentifier)) :> OLD_PASSWORD,
          grants |-> {<<instance.DBName,
                        NewUser(ServiceOf(instance.DBInstanceIdentifier))>>}]
    ELSE [roles |-> EmptyFcn, grants |-> {}]

SecretNamesOf(list) ==
  { SecretName(EnvOf(list[i].DBInstanceIdentifier),
               ServiceOf(list[i].DBInstanceIdentifier)) :
      i \in {j \in DOMAIN list : WellFormed(list[j].DBInstanceIdentifier)} }

Init ==
  /\ args \in Flags
  /\ instances \in InstanceLists
  /\ idx = 0
  /\ pc = "loop"
  /\ env_name = <<>> /\ service_name = <<>> /\ secret_name = <<>>
  /\ admin_secret_name = <<>>
  /\ admin_password = None /\ new_password = None
  /\ user_created_or_updated = FALSE
  /\ \E roleExists \in BOOLEAN :
       databases = [i \in DOMAIN instances |-> InitialDatabase(instances[i], roleExists)]
  /\ \E initial \in InitialSecrets :
       secretStore = IF initial.kind = "absent" THEN EmptyFcn
                     ELSE [n \in SecretNamesOf(instances) |-> initial]
  /\ openConns = {}
  /\ calls = <<>>
  /\ before = NothingBefore
  /\ runs = 1

(***************************************************************************)
(* The main loop.  pc = "loop": at the top of the for loop, instances[idx] *)
(* was the last one taken.  "admin", "login", "mutate", "store": inside    *)
(* the body for instances[idx], before the call of that name.  "done": the *)
(* loop ended.  "crashed": an exception nobody catches ended the process.  *)
(***************************************************************************)
\* lines 167-189: take the next instance, filter it, derive the names
LoopHead ==
  /\ pc = "loop"
  /\ idx < Len(instances)
  /\ idx' = idx + 1
  /\ calls' = <<>>
  /\ before' = [database |-> databases[idx + 1], secrets |-> secretStore]
  /\ LET instance == instances[idx + 1]
         db_identifier == instance.DBInstanceIdentifier
         parts == Split(db_identifier, "-")
     IN
     IF instance.DBName = Absent
       THEN \* instance["DBName"]: KeyError
            /\ pc' = "crashed"
            /\ UNCHANGED <<env_name, service_name, secret_name, admin_secret_name>>
     ELSE IF IsReadReplica(instance) \/ ~EngineSupported(instance.Engine)
       THEN /\ pc' = "loop"
            /\ UNCHANGED <<env_name, service_name, secret_name, admin_secret_name>>
     ELSE IF Len(parts) < 2
       THEN \* db_identifier.split("-")[1]: IndexError
            /\ pc' = "crashed"
            /\ UNCHANGED <<env_name, service_name, secret_name, admin_secret_name>>
     ELSE /\ env_name' = parts[1]
          /\ service_name' = parts[2]
          /\ secret_name' = SecretName(parts[1], parts[2])
          /\ admin_secret_name' = AdminSecretName(parts[1], parts[2])
          /\ pc' = "admin"
  /\ UNCHANGED <<args, instances, admin_password, new_password,
                 user_created_or_updated, databases, secretStore, openConns, runs>>

\* lines 192-194: admin_password = get_admin_password(...); if admin_password:
GetAdminPassword ==
  /\ pc = "admin"
  /\ \E fault \in StoreFaults :
       LET r == get_admin_password(admin_secret_name, fault) IN
         /\ calls' = calls \o r.calls
         /\ IF r.raised
              THEN pc' = "crashed" /\ UNCHANGED admin_password
              ELSE /\ admin_password' = r.ret
                   /\ pc' = IF Truthy(r.ret) THEN "login" ELSE "loop"
  /\ UNCHANGED <<args, instances, idx, env_name, service_name, secret_name,
                 admin_secret_name, new_password, user_created_or_updated,
                 databases, secretStore, openConns, before, runs>>

\* a variant of AfterLogin that forgets the check flag
AfterLogin_IgnoresCheck(check, ok) ==
  IF ok THEN "mutate" ELSE "loop"

\* where the body goes after check_rds_login returned ok
AfterLogin(check, ok) ==
  IF check THEN "loop" ELSE IF ok THEN "mutate" ELSE "loop"

\* lines 195-212: the login check, and the new password when it succeeded
CheckRdsLogin ==
  /\ pc = "login"
  /\ \E connectFails \in BOOLEAN :
       LET r == check_rds_login(connectFails) IN
         /\ calls' = calls \o r.calls
         /\ pc' = AfterLogin(args.check, r.ret)
         /\ IF pc' = "mutate"
              THEN new_password' \in generate_random_password
              ELSE UNCHANGED new_password
  /\ UNCHANGED <<args, instances, idx, env_name, service_name, secret_name,
                 admin_secret_name, admin_password, user_created_or_updated,
                 databases, secretStore, openConns, before, runs>>

\* lines 211, 214-224: user_created_or_updated = create_or_update_user(...)
CreateOrUpdateUser ==
  /\ pc = "mutate"
  /\ \E fail \in SqlFaults :
       LET r == create_or_update_user(databases[idx], instances[idx].DBName,
                                      NewUser(service_name), new_password,
                                      args.force, fail)
       IN
         /\ databases' = [databases EXCEPT ![idx] = r.database]
         /\ user_created_or_updated' = r.ret
         /\ openConns' = IF r.leaked THEN openConns \cup {idx} ELSE openConns
         /\ calls' = calls \o r.calls
         /\ pc' = IF r.ret THEN "store" ELSE "loop"
  /\ UNCHANGED <<args, instances, idx, env_name, service_name, secret_name,
                 admin_secret_name, admin_password, new_password, secretStore,
                 before, runs>>

\* lines 225-227: store_password_in_secrets_manager(secret_name, "DB_PASSWORD", ...)
StorePassword ==
  /\ pc = "store"
  /\ \E g \in StoreFaults, u \in StoreFaults, c \in StoreFaults :
       LET r == store_password_in_secrets_manager(secretStore, secret_name,
                                                  DB_PASSWORD, new_password, g, u, c)
       IN
         /\ secretStore' = r.store
         /\ calls' = calls \o r.calls
         /\ pc' = IF r.raised THEN "crashed" ELSE "loop"
  /\ UNCHANGED <<args, instances, idx, locals, databases, openConns, before,
                 runs>>

\* the for loop is exhausted: the script ends
Finish ==
  /\ pc = "loop"
  /\ idx = Len(instances)
  /\ pc' = "done"
  /\ UNCHANGED <<args, instances, idx, locals, databases, secretStore,
                 openConns, calls, before, runs>>

\* the same command line is run again (lines 21-30, 165): a new process with
\* no open connection, and the same instances, databases and secrets
NextRun ==
  /\ pc \in {"done", "crashed"}
  /\ runs < MaxRuns
  /\ runs' = runs + 1
  /\ idx' = 0
  /\ pc' = "loop"
  /\ env_name' = <<>> /\ service_name' = <<>> /\ secret_name' = <<>>
  /\ admin_secret_name' = <<>>
  /\ admin_password' = None /\ new_password' = None
  /\ user_created_or_updated' = FALSE
  /\ openConns' = {}
  /\ calls' = <<>>
  /\ before' = NothingBefore
  /\ UNCHANGED <<args, instances, databases, secretStore>>

Next ==
  \/ LoopHead
  \/ GetAdminPassword
  \/ CheckRdsLogin
  \/ CreateOrUpdateUser
  \/ StorePassword
  \/ Finish
  \/ NextRun

Spec == Init /\ [][Next]_vars

(***************************************************************************)
(* Vocabulary of the properties.                                           *)
(***************************************************************************)
CallsOf(op) == {i \in DOMAIN calls : calls[i].op = op}
Succeeded(op) == \E i \in CallsOf(op) : calls[i].code = "ok"
Failed(op) == \E i \in CallsOf(op) : calls[i].code # "ok"
WriteCalls == CallsOf("update_secret") \cup CallsOf("create_secret")
\* the calls store_password_in_secrets_manager makes
StoreCalls == {i \in DOMAIN calls : i > 1 /\ calls[i].op = "get_secret_value"}
                \cup WriteCalls
TurnOver == pc \in {"loop", "done"} /\ idx >= 1
Untouched == databases[idx] = before.database /\ secretStore = before.secrets

\* C1: in a run with the check flag, whatever the collaborators answer, the
\* calls made for an instance are at most the read of the admin secret and
\* one connectivity check (connect, close): no CREATE USER, ALTER USER or
\* GRANT, no update_secret or create_secret; the database and the Secret
\* Store stay as they were.
C1_CheckRunMutatesNothing ==
  args.check =>
    /\ \A i \in DOMAIN calls : calls[i].op \in {"get_secret_value", "connect", "close"}
    /\ Cardinality(CallsOf("get_secret_value")) <= 1
    /\ \A i \in CallsOf("get_secret_value") :
         calls[i].arg = <<env_name \o <<"-">> \o service_name \o ADMIN_SECRET_SUFFIX>>
    /\ Cardinality(CallsOf("connect")) <= 1
    /\ pc \notin {"mutate", "store"}
    /\ idx >= 1 => Untouched

C1_Witness ==
  /\ args.check
  /\ TurnOver
  /\ Len(calls) = 3
  /\ calls[1].op = "get_secret_value" /\ calls[1].code = "ok"
  /\ calls[2].op = "connect" /\ calls[2].code = "ok"
  /\ calls[3].op = "close"

\* C2 as stated: once the SELECT, the ALTER USER, the CREATE USER or the
\* GRANT has failed for an instance, store_password_in_secrets_manager is
\* not called for it.
C2_AnySqlFailureStopsStore ==
  (Failed("SELECT") \/ Failed("ALTER USER") \/ Failed("CREATE USER") \/ Failed("GRANT"))
    => pc # "store" /\ StoreCalls = {}

\* C2 as amended: once the SELECT, the ALTER USER or the CREATE USER has
\* failed for an instance, store_password_in_secrets_manager is not called
\* for it; when only the GRANT failed, the password was already set and the
\* function is called.
C2_FailureBeforeGrantStopsStore ==
  /\ (Failed("SELECT") \/ Failed("ALTER USER") \/ Failed("CREATE USER"))
       => pc # "store" /\ StoreCalls = {} /\ secretStore = before.secrets
  /\ Failed("GRANT") => pc = "store" \/ StoreCalls # {}

C2_Witness ==
  /\ TurnOver
  /\ ~args.check
  /\ Failed("ALTER USER")
  /\ StoreCalls = {}

\* C3: the run reaches the end of the instance list whatever happens to an
\* instance: no exception ends the process.
C3_RunReachesEnd == pc # "crashed"

\* C4: no connection is left open when the turn of an instance is over.
C4_ConnectionsClosed == TurnOver => openConns = {}

(***************************************************************************)
(* JSON objects as the properties read them: the keys of the text, and the *)
(* value of a key (the last one when the text repeats the key).            *)
(***************************************************************************)
KeysOf(secret) == {secret.pairs[i][1] : i \in DOMAIN secret.pairs}
ValueOf(secret, k) ==
  secret.pairs[CHOOSE i \in DOMAIN secret.pairs :
                 /\ secret.pairs[i][1] = k
                 /\ \A j \in DOMAIN secret.pairs : j > i => secret.pairs[j][1] # k][2]

\* written is old with DB_PASSWORD set to password and nothing else changed
IsMergeOf(written, old, password) ==
  /\ written.kind = "object"
  /\ KeysOf(written) = KeysOf(old) \cup {DB_PASSWORD}
  /\ ValueOf(written, DB_PASSWORD) = password
  /\ \A k \in KeysOf(old) \ {DB_PASSWORD} : ValueOf(written, k) = ValueOf(old, k)

\* the instance whose turn it is passes both filters of the main loop
Eligible ==
  /\ idx >= 1
  /\ instances[idx].ReadReplicaSourceDBInstanceIdentifier \in {Absent, ""}
  /\ instances[idx].Engine \in {"postgres", "aurora-postgresql"}
  /\ instances[idx].DBName # Absent
  /\ Len(Split(instances[idx].DBInstanceIdentifier, "-")) >= 2

\* the instance's service role existed when its turn began
RoleExisted == Eligible /\ (ROLE_PREFIX \o service_name) \in DOMAIN before.database.roles

\* C5 as stated: with -force and without -check, the turn of an eligible
\* instance whose role exists always ends with exactly one Secret Store
\* write, of the stored object with DB_PASSWORD set to the new password.
C5_ForcedRotationAlwaysWritesOnce ==
  (TurnOver /\ args.force /\ ~args.check /\ RoleExisted) =>
    /\ Cardinality(WriteCalls) = 1
    /\ \A i \in WriteCalls :
         /\ calls[i].code = "ok"
         /\ secret_name \in DOMAIN before.secrets
              => IsMergeOf(calls[i].arg[2], before.secrets[secret_name], new_password)

\* C5 as amended: with -force and without -check, for an eligible instance
\* whose role exists and whose ALTER USER succeeded, the role has the new
\* password and store_password_in_secrets_manager is called exactly once
\* (also when the GRANT failed); when it reads the stored secret as a JSON
\* object it makes exactly one write call, an update_secret of that object
\* with DB_PASSWORD set to the new password and every other key unchanged,
\* and the store holds that object if the call succeeded and is unchanged if
\* it did not.
C5_ForcedRotationWritesMerged ==
  (args.force /\ ~args.check /\ RoleExisted /\ Succeeded("ALTER USER")) =>
    /\ CallsOf("CREATE USER") = {}
    /\ databases[idx].roles[ROLE_PREFIX \o service_name] = new_password
    /\ pc # "store" => Cardinality({i \in StoreCalls : calls[i].op = "get_secret_value"}) = 1
    /\ ( /\ pc # "store"
         /\ \E i \in StoreCalls : calls[i].op = "get_secret_value" /\ calls[i].code = "ok"
         /\ before.secrets[secret_name].kind = "object" ) =>
           /\ Cardinality(WriteCalls) = 1
           /\ \A i \in WriteCalls :
                /\ calls[i].op = "update_secret"
                /\ calls[i].arg[1] = secret_name
                /\ IsMergeOf(calls[i].arg[2], before.secrets[secret_name], new_password)
                /\ calls[i].code = "ok" => secretStore[secret_name] = calls[i].arg[2]
                /\ calls[i].code # "ok" => secretStore = before.secrets

C5_Witness ==
  /\ TurnOver /\ args.force /\ ~args.check /\ RoleExisted
  /\ Succeeded("ALTER USER")
  /\ Succeeded("update_secret")
  /\ "URL" \in KeysOf(before.secrets[secret_name])
  /\ ValueOf(secretStore[secret_name], "URL") = "u2"
  /\ ValueOf(secretStore[secret_name], DB_PASSWORD) = new_password

\* C6: without -force, for an instance whose role service.<service> exists,
\* no ALTER USER, no CREATE USER and no Secret Store write is issued, and the
\* database and the stored secrets are left exactly as they were; so a second
\* run after the run that created the role changes nothing.
C6_ExistingRoleUntouchedWithoutForce ==
  (~args.force /\ RoleExisted) =>
    /\ CallsOf("ALTER USER") = {}
    /\ CallsOf("CREATE USER") = {}
    /\ StoreCalls = {}
    /\ pc # "store"
    /\ Untouched

\* second run, the role was created by the first one and its password stored
C6_Witness ==
  /\ runs = 2 /\ ~args.force /\ ~args.check /\ RoleExisted
  /\ TurnOver
  /\ Succeeded("SELECT")
  /\ before.database.roles[ROLE_PREFIX \o service_name] # OLD_PASSWORD
  /\ secret_name \in DOMAIN secretStore
  /\ secretStore[secret_name].kind = "object"
  /\ DB_PASSWORD \in KeysOf(secretStore[secret_name])
  /\ ValueOf(secretStore[secret_name], DB_PASSWORD)
       = databases[idx].roles[ROLE_PREFIX \o service_name]

\* C7: for an instance whose read-replica source identifier is present and
\* not empty, no collaborator is called at all (no secret lookup, no
\* connection, no statement, no write), whatever the flags.
C7_ReadReplicaSkipped ==
  (idx >= 1 /\ instances[idx].ReadReplicaSourceDBInstanceIdentifier \notin {Absent, ""}) =>
    /\ calls = <<>>
    /\ pc \in {"loop", "done"}
    /\ Untouched

C7_Witness ==
  /\ idx >= 1
  /\ instances[idx].ReadReplicaSourceDBInstanceIdentifier = "p-bill-1"
  /\ instances[idx].Engine = "postgres"
  /\ pc = "loop"
  /\ ~args.check

\* C8: for an instance whose engine is neither postgres nor
\* aurora-postgresql, no collaborator is called at all (no connection, no
\* secret lookup, no write), whatever the flags.
C8_UnsupportedEngineSkipped ==
  (idx >= 1 /\ instances[idx].Engine \notin {"postgres", "aurora-postgresql"}) =>
    /\ calls = <<>>
    /\ pc \in {"loop", "done"}
    /\ Untouched

C8_Witness ==
  /\ idx >= 1
  /\ instances[idx].Engine = "mysql"
  /\ instances[idx].ReadReplicaSourceDBInstanceIdentifier = Absent
  /\ pc = "loop"
  /\ args.force

\* C9: every write store_password_in_secrets_manager issues carries each key
\* of the previously stored object other than the key being set, with its
\* value; an object holding only DB_PASSWORD is written only when the secret
\* did not exist or held no other key; a successful write leaves exactly
\* that object in the store and no other secret changes.
C9_WritePreservesOtherKeys ==
  \A i \in WriteCalls :
    LET name == calls[i].arg[1]
        written == calls[i].arg[2]
    IN
    /\ name = secret_name
    /\ DB_PASSWORD \in KeysOf(written)
    /\ name \in DOMAIN before.secrets =>
         \A k \in KeysOf(before.secrets[name]) \ {DB_PASSWORD} :
           k \in KeysOf(written) /\ ValueOf(written, k) = ValueOf(before.secrets[name], k)
    /\ KeysOf(written) = {DB_PASSWORD} =>
         \/ name \notin DOMAIN before.secrets
         \/ KeysOf(before.secrets[name]) \subseteq {DB_PASSWORD}
    /\ calls[i].code = "ok" => secretStore[name] = written
    /\ \A other \in DOMAIN before.secrets \ {name} :
         other \in DOMAIN secretStore /\ secretStore[other] = before.secrets[other]

C9_Witness ==
  /\ TurnOver
  /\ Succeeded("CREATE USER")
  /\ Succeeded("update_secret")
  /\ KeysOf(before.secrets[secret_name]) = {"URL", DB_PASSWORD}
  /\ KeysOf(secretStore[secret_name]) = {"URL", DB_PASSWORD}
  /\ ValueOf(secretStore[secret_name], "URL") = "u2"
  /\ ValueOf(secretStore[secret_name], DB_PASSWORD) # OLD_PASSWORD

NameEnvs == { <<"p","r","o","d">>, <<"D","e","v">> }
NameServices ==
  { <<"c","o","r","e">>, <<"C","o","r","e">>, <<"C","O","R","E">>,
    <<"c","o","r","e","x">>, <<"C","o","r","e","A","p","i">>,
    <<"c","o","r">>, <<"c","o">>, <<"x","c","o","r","e">>, <<"o","c","r","e">>,
    <<"b","i","l","l","i","n","g">>, <<>> }
NameRests == { <<"1">>, <<"2">>, <<"2","-","b">> }
NameIdentifiers ==
  { e \o <<"-">> \o sv \o <<"-">> \o r :
      e \in NameEnvs, sv \in NameServices, r \in NameRests }

NameInit ==
  /\ args \in Flags
  /\ \E id \in NameIdentifiers : instances = <<Instance(id, "postgres", "appdb", Absent)>>
  /\ idx = 0
  /\ pc = "loop"
  /\ env_name = <<>> /\ service_name = <<>> /\ secret_name = <<>>
  /\ admin_secret_name = <<>>
  /\ admin_password = None /\ new_password = None
  /\ user_created_or_updated = FALSE
  /\ databases = [i \in DOMAIN instances |-> InitialDatabase(instances[i], FALSE)]
  /\ secretStore = EmptyFcn
  /\ openConns = {}
  /\ calls = <<>>
  /\ before = NothingBefore
  /\ runs = 1

NameSpec == NameInit /\ [][Next]_vars

\* the identifier read as <env>-<service>-...: the text before the first
\* "-", and the text between the first and the second "-" (or the end)
DashesOf(id) == {i \in DOMAIN id : id[i] = "-"}
FirstDash(id) == CHOOSE i \in DashesOf(id) : \A j \in DashesOf(id) : i <= j
SecondDash(id) ==
  IF DashesOf(id) \ {FirstDash(id)} = {} THEN Len(id) + 1
  ELSE CHOOSE i \in DashesOf(id) \ {FirstDash(id)} :
         \A j \in DashesOf(id) \ {FirstDash(id)} : i <= j
EnvPart(id) == SubSeq(id, 1, FirstDash(id) - 1)
ServicePart(id) == SubSeq(id, FirstDash(id) + 1, SecondDash(id) - 1)

\* the service name starts with "core", letters compared without case
StartsWithCoreAnyCase(sv) ==
  /\ Len(sv) >= 4
  /\ sv[1] \in {"c", "C"} /\ sv[2] \in {"o", "O"}
  /\ sv[3] \in {"r", "R"} /\ sv[4] \in {"e", "E"}

ExpectedSecretName(id) ==
  IF StartsWithCoreAnyCase(ServicePart(id))
    THEN EnvPart(id) \o <<"/">> \o ServicePart(id)
    ELSE EnvPart(id) \o <<"/">> \o ServicePart(id)
           \o <<"-","s","e","r","v","i","c","e">>

\* C11: for an identifier <env>-<service>-..., the secret name derived, and
\* the name every write call carries, is <env>/<service> when the service
\* name starts with "core" whatever the case of its letters (longer names
\* included), and <env>/<service>-service otherwise; prod-core-2 gives
\* prod/core and prod-billing-1 gives prod/billing-service.
C11_SecretNameRule ==
  (idx >= 1 /\ pc # "crashed") =>
    LET id == instances[idx].DBInstanceIdentifier IN
    /\ secret_name = ExpectedSecretName(id)
    /\ \A i \in WriteCalls : calls[i].arg[1] = ExpectedSecretName(id)
    /\ \A n \in DOMAIN secretStore : \E other \in NameIdentifiers : n = ExpectedSecretName(other)
    /\ id = <<"p","r","o","d","-","c","o","r","e","-","2">>
         => secret_name = <<"p","r","o","d","/","c","o","r","e">>
    /\ id = <<"p","r","o","d","-","b","i","l","l","i","n","g","-","1">>
         => secret_name = <<"p","r","o","d","/","b","i","l","l","i","n","g",
                            "-","s","e","r","v","i","c","e">>

\* a secret was created under Dev/CoreApi: a longer name, not in lower case
C11_Witness ==
  /\ TurnOver
  /\ instances[idx].DBInstanceIdentifier
       = <<"D","e","v","-","C","o","r","e","A","p","i","-","2","-","b">>
  /\ Succeeded("create_secret")
  /\ DOMAIN secretStore = {<<"D","e","v","/","C","o","r","e","A","p","i">>}

\* the read store_password_in_secrets_manager made, once it has returned or
\* raised
StoreReads == {i \in StoreCalls : calls[i].op = "get_secret_value"}
ReadEnded(code) == pc # "store" /\ \E i \in StoreReads : calls[i].code = code
OnlyPassword == [kind |-> "object", pairs |-> <<<<DB_PASSWORD, new_password>>>>]

\* C12: in store_password_in_secrets_manager, (a) when the read reports "not
\* found" the mapping is empty: the write calls carry exactly {key: password},
\* update_secret reports the secret missing and create_secret creates it;
\* (b) when the read returns the stored JSON object, update_secret is called
\* and create_secret is not; (c) when the read fails with any other error, no
\* update_secret and no create_secret is called and the store is unchanged.
C12_ReadOutcomeDecidesWrite ==
  /\ ReadEnded(NOT_FOUND) =>
       /\ secret_name \notin DOMAIN before.secrets
       /\ Cardinality(CallsOf("update_secret")) = 1
       /\ \A i \in WriteCalls : calls[i].arg = <<secret_name, OnlyPassword>>
       /\ (\E i \in CallsOf("update_secret") : calls[i].code = NOT_FOUND)
            <=> CallsOf("create_secret") # {}
       /\ Cardinality(CallsOf("create_secret")) <= 1
       /\ Succeeded("create_secret") =>
            secretStore = (secret_name :> OnlyPassword) @@ before.secrets
       /\ ~Succeeded("create_secret") => secretStore = before.secrets
  /\ (ReadEnded("ok") /\ before.secrets[secret_name].kind = "object") =>
       /\ Cardinality(CallsOf("update_secret")) = 1
       /\ CallsOf("create_secret") = {}
       /\ \A i \in CallsOf("update_secret") :
            secretStore = IF calls[i].code = "ok"
                            THEN [before.secrets EXCEPT ![secret_name] = calls[i].arg[2]]
                            ELSE before.secrets
  /\ (ReadEnded("ClientError") \/ ReadEnded("BotoCoreError")) =>
       /\ WriteCalls = {}
       /\ secretStore = before.secrets

\* the secret did not exist, and was created holding the password alone
C12_Witness ==
  /\ TurnOver
  /\ ReadEnded(NOT_FOUND)
  /\ Failed("update_secret")
  /\ Succeeded("create_secret")
  /\ secret_name \notin DOMAIN before.secrets
  /\ KeysOf(secretStore[secret_name]) = {DB_PASSWORD}
  /\ ValueOf(secretStore[secret_name], DB_PASSWORD)
       = databases[idx].roles[ROLE_PREFIX \o service_name]

\* the role was created or altered in this turn, store_password_in_secrets_manager
\* is over, and its read or one of its writes failed
RoleMutated == Succeeded("ALTER USER") \/ Succeeded("CREATE USER")
SqlCalls == CallsOf("SELECT") \cup CallsOf("ALTER USER") \cup CallsOf("CREATE USER")
              \cup CallsOf("GRANT")
StoreReadOrWriteFailed ==
  /\ pc # "store"
  /\ RoleMutated
  /\ \/ ReadEnded("ClientError") \/ ReadEnded("BotoCoreError")
     \/ \E i \in CallsOf("update_secret") : calls[i].code \in {"ClientError", "BotoCoreError"}
     \/ Failed("create_secret")

\* the part of C13 about the database and the store: after such a failure no
\* statement follows the Secret Store calls, the role has the new password
\* and the Secret Store is as it was before the turn
C13_NoCompensation ==
  StoreReadOrWriteFailed =>
    /\ \A i \in StoreCalls, j \in SqlCalls : j < i
    /\ databases[idx].roles[ROLE_PREFIX \o service_name] = new_password
    /\ secretStore = before.secrets

\* C13: when the role was created or altered and the Secret Store read or
\* write that follows fails, no compensating statement is issued, the role
\* keeps the new password, the stored secret is unchanged, and the run goes
\* on with the next instance.
C13_StoreFailureKeepsRoleAndRunGoesOn ==
  StoreReadOrWriteFailed =>
    /\ \A i \in StoreCalls, j \in SqlCalls : j < i
    /\ databases[idx].roles[ROLE_PREFIX \o service_name] = new_password
    /\ secretStore = before.secrets
    /\ pc \in {"loop", "done"}

\* the state C13 says is reachable: the turn is over, the write was refused,
\* and the role's password is not the stored DB_PASSWORD
C13_Witness ==
  /\ TurnOver
  /\ StoreReadOrWriteFailed
  /\ Succeeded("ALTER USER")
  /\ \E i \in CallsOf("update_secret") : calls[i].code = "ClientError"
  /\ secret_name \in DOMAIN secretStore
  /\ DB_PASSWORD \in KeysOf(secretStore[secret_name])
  /\ ValueOf(secretStore[secret_name], DB_PASSWORD) = OLD_PASSWORD
  /\ databases[idx].roles[ROLE_PREFIX \o service_name] # OLD_PASSWORD
  /\ idx < Len(instances)
====
